---------------------------- MODULE Spec2Model ----------------------------
(***************************************************************************)
(* path-miner: the decoding pipeline of src/main.rs.                       *)
(*                                                                         *)
(*   main          reads the 1024-entry location table of a region file    *)
(*                 into chunk_offsets (stopping at the first absent entry) *)
(*   parse_chunks  seeks to each offset, reads the length, the scheme byte *)
(*                 and the payload, inflates it and hands it to Tag::parse *)
(*   Tag::parse / Tag::parse_payload                                       *)
(*                 the recursive NBT decoder over a byte iterator          *)
(*                                                                         *)
(* Bytes are the integers 0..255.  All values are kept below 2^31.         *)
(***************************************************************************)
EXTENDS Integers, Sequences, FiniteSets, TLC

VARIABLES
    pc,             \* position in main / parse_chunks
    file,           \* the region file: its location table, chunk records, size
    fpos,           \* the read position of File f
    scan,           \* the counter of main's loop `for _ in 0..1024`
    chunk_offsets,  \* main's Vec<u64>
    chunk_i,        \* the index i of parse_chunks' loop over chunk_offsets
    chunk_length,   \* parse_chunks' chunk_length of the current chunk
    chunk_data,     \* parse_chunks' chunk_data of the current chunk
    chunks,         \* parse_chunks' Vec<Tag>
    iterator,       \* the Iter<u8> the decoder reads from
    pos,            \* how many bytes the iterator has yielded
    stack,          \* the decoder's call stack of loops in progress
    ctl,            \* what the decoder does next: enter a payload, loop, return
    root            \* the Option<Tag> returned by Tag::parse

vars == <<pc, file, fpos, scan, chunk_offsets, chunk_i, chunk_length,
          chunk_data, chunks, iterator, pos, stack, ctl, root>>

chunkVars == <<chunk_i, chunk_length, chunk_data, chunks>>
parseVars == <<iterator, pos, stack, ctl, root>>

---------------------------------------------------------------------------
(* Bounds of the model.                                                    *)

\* the longest table prefix whose entries are chosen freely
MaxPrefix == 2
\* the longest buffer handed to Tag::parse on its own
MaxBufLen == 12
\* the most table entries of a file whose chunks are decoded
MaxChunks == 2

---------------------------------------------------------------------------
(* Program constants.                                                      *)

\* main: for _ in 0..1024
TableEntries == 1024
\* chunk_loc_to_byte_offset: * 4096
SectorSize == 4096
\* parse_chunks: ensure!(buf1[0] == 2)
SchemeZlib == 2

None == [some |-> FALSE]
Some(v) == [some |-> TRUE, val |-> v]

---------------------------------------------------------------------------
(* Big-endian conversions (uN::from_be_bytes, iN::from_be_bytes).          *)

U16(b) == b[1] * 256 + b[2]
U32(b) == b[1] * 16777216 + b[2] * 65536 + b[3] * 256 + b[4]
Signed8(x) == IF x >= 128 THEN x - 256 ELSE x
I8(b) == Signed8(b[1])
I16(b) == Signed8(b[1]) * 256 + b[2]
I32(b) == Signed8(b[1]) * 16777216 + b[2] * 65536 + b[3] * 256 + b[4]
\* a 64-bit value as <<hi, mid, lo>>: hi * 2^32 + mid * 2^16 + lo
I64(b) == <<I32(SubSeq(b, 1, 4)), U16(SubSeq(b, 5, 6)), U16(SubSeq(b, 7, 8))>>
\* an f32 as its sign, biased exponent and fraction bits
F32(b) == [sign |-> b[1] \div 128,
           exp  |-> (b[1] % 128) * 2 + (b[2] \div 128),
           frac |-> (b[2] % 128) * 65536 + b[3] * 256 + b[4]]
\* an f64 as its sign, biased exponent and fraction bits (in 16-bit limbs)
F64(b) == [sign |-> b[1] \div 128,
           exp  |-> (b[1] % 128) * 16 + (b[2] \div 16),
           frac |-> <<b[2] % 16, U16(SubSeq(b, 3, 4)), U16(SubSeq(b, 5, 6)),
                      U16(SubSeq(b, 7, 8))>>]

---------------------------------------------------------------------------
(* chunk_loc_to_byte_offset                                                *)

SectorOf(bytes) == bytes[1] * 65536 + bytes[2] * 256 + bytes[3]

chunk_loc_to_byte_offset_absent(bytes) ==
    IF bytes[1] = 0 /\ bytes[2] = 0 /\ bytes[3] = 0
    THEN None
    ELSE Some(SectorOf(bytes) * SectorSize)

chunk_loc_to_byte_offset_shift(bytes) ==
    IF bytes[4] = 0
    THEN None
    ELSE Some((bytes[1] * 65536 + bytes[2] * 65536 + bytes[3]) * SectorSize)

chunk_loc_to_byte_offset(bytes) ==
    IF bytes[4] = 0
    THEN None
    ELSE Some(SectorOf(bytes) * SectorSize)

---------------------------------------------------------------------------
(* The region file.  `prefix` holds the first entries of the location      *)
(* table and `filler` every entry after them; `recs` holds the bytes       *)
(* stored at the start of a sector; every other byte below `size` is 0.    *)

TableEntry(f, k) == IF k <= Len(f.prefix) THEN f.prefix[k] ELSE f.filler

TableBytes == TableEntries * 4

ByteAt(f, p) ==
    IF p < TableBytes
    THEN TableEntry(f, (p \div 4) + 1)[(p % 4) + 1]
    ELSE LET s == p \div SectorSize
             k == p % SectorSize
         IN  IF s \in DOMAIN f.recs /\ k < Len(f.recs[s])
             THEN f.recs[s][k + 1]
             ELSE 0

\* File::read_exact: n bytes from the read position, or Err at end of file
ReadExact(f, p, n) ==
    IF p + n > f.size
    THEN None
    ELSE Some([k \in 1..n |-> ByteAt(f, p + k - 1)])

---------------------------------------------------------------------------
(* main, lines 463-477: the scan of the location table.                    *)

LocateStep ==
    /\ pc = "locate"
    /\ LET r == ReadExact(file, fpos, 4)
       IN  IF ~r.some
           THEN \* f.read_exact(&mut buf4)? returns Err from main
                /\ pc' = "main_err"
                /\ UNCHANGED <<fpos, scan, chunk_offsets>>
           ELSE LET chunk_loc == chunk_loc_to_byte_offset(r.val)
                IN  /\ fpos' = fpos + 4
                    /\ IF chunk_loc.some
                       THEN /\ chunk_offsets' = Append(chunk_offsets, chunk_loc.val)
                            /\ scan' = scan + 1
                            /\ pc' = IF scan + 1 = TableEntries
                                     THEN "located" ELSE "locate"
                       ELSE \* break
                            /\ pc' = "located"
                            /\ UNCHANGED <<scan, chunk_offsets>>
    /\ UNCHANGED <<file, chunkVars, parseVars>>

---------------------------------------------------------------------------
(* The Iter<u8> handed to the decoder.  `rest` holds the bytes still to    *)
(* come; `free` counts further bytes of the buffer that are input not yet  *)
(* determined: each is drawn when it is read (the decoder reads every byte *)
(* once, in order).  An iterator over a known buffer has free = 0.         *)

KnownIter(buf) == [rest |-> buf, free |-> 0]
FreeIter(n) == [rest |-> <<>>, free |-> n]

Avail(it) == Len(it.rest) + it.free

\* the byte strings a read of n bytes can yield; S: the inputs drawn from
Reads(it, n, S) ==
    IF n > Avail(it) THEN {}
    ELSE IF it.free = 0 THEN {SubSeq(it.rest, 1, n)}
    ELSE {SubSeq(w, 1, n) : w \in S}

\* the iterator after n bytes were read (exhausted when fewer remain)
After(it, n) ==
    IF n > Avail(it) THEN [rest |-> <<>>, free |-> 0]
    ELSE IF it.free = 0 THEN [rest |-> SubSeq(it.rest, n + 1, Len(it.rest)), free |-> 0]
    ELSE [rest |-> <<>>, free |-> it.free - n]

\* the inputs of the decoder on its own
Word(w, a, m, z) == [k \in 1..w |-> IF k = w THEN z ELSE IF k = 1 THEN a ELSE m]
TagIdWords == {<<t>> : t \in (0..13) \cup {255}}
LenWords == {<<0, 0>>, <<0, 1>>, <<0, 2>>, <<1, 0>>, <<255, 255>>}
CountWords == {Word(4, a, m, z) : a \in {0, 127, 128, 255}, m \in {0, 255},
                                  z \in {0, 1, 2, 255}}
DataWords(w) == {Word(w, a, 0, z) : a \in {0, 128, 255}, z \in {0, 1}}
TextBytes == {65, 195, 169}
RECURSIVE TextWords(_)
TextWords(n) ==
    IF n = 0 THEN {<<>>}
    ELSE {<<b>> \o w : b \in TextBytes, w \in TextWords(n - 1)}

---------------------------------------------------------------------------
(* String::from_utf8: whether the bytes are well-formed UTF-8.             *)

IsCont(b) == b >= 128 /\ b <= 191

RECURSIVE Utf8Ok(_)
Utf8Ok(b) ==
    LET n == Len(b)
        Tail2(k) == SubSeq(b, k + 1, n)
    IN  IF n = 0 THEN TRUE
        ELSE IF b[1] <= 127 THEN Utf8Ok(Tail2(1))
        ELSE IF b[1] >= 194 /\ b[1] <= 223
             THEN n >= 2 /\ IsCont(b[2]) /\ Utf8Ok(Tail2(2))
        ELSE IF b[1] >= 224 /\ b[1] <= 239
             THEN /\ n >= 3
                  /\ IsCont(b[2]) /\ IsCont(b[3])
                  /\ (b[1] = 224 => b[2] >= 160)
                  /\ (b[1] = 237 => b[2] <= 159)
                  /\ Utf8Ok(Tail2(3))
        ELSE IF b[1] >= 240 /\ b[1] <= 244
             THEN /\ n >= 4
                  /\ IsCont(b[2]) /\ IsCont(b[3]) /\ IsCont(b[4])
                  /\ (b[1] = 240 => b[2] >= 144)
                  /\ (b[1] = 244 => b[2] <= 143)
                  /\ Utf8Ok(Tail2(4))
        ELSE FALSE

---------------------------------------------------------------------------
(* `x as usize` of an i32 x on a 64-bit target, as four 16-bit limbs.      *)

AsUsize(x) ==
    IF x >= 0
    THEN <<0, 0, x \div 65536, x % 65536>>
    ELSE <<65535, 65535, (x \div 65536) + 65536, x % 65536>>

\* i < n for a usize n and a small i
UsizeGt(n, i) ==
    n[1] > 0 \/ n[2] > 0 \/ n[3] >= 32768 \/ n[3] * 65536 + n[4] > i

---------------------------------------------------------------------------
(* NextPlusPlus for Iter<u8>.  A cursor is the iterator with the number of *)
(* bytes it has yielded; a read yields [ok, val, cur].                     *)

Cur(it, p) == [it |-> it, pos |-> p]

\* next_n / next_n_vec: n bytes, or None with the iterator exhausted
next_n(cur, n, S) ==
    IF n > Avail(cur.it)
    THEN {[ok |-> FALSE, why |-> "end",
           cur |-> Cur(After(cur.it, n), cur.pos + Avail(cur.it))]}
    ELSE {[ok |-> TRUE, val |-> w, cur |-> Cur(After(cur.it, n), cur.pos + n)] :
            w \in Reads(cur.it, n, S)}

\* next_string: len bytes that must be UTF-8
next_string(cur, len) ==
    {IF r.ok /\ ~Utf8Ok(r.val) THEN [ok |-> FALSE, why |-> "utf8", cur |-> r.cur] ELSE r :
        r \in next_n(cur, len, TextWords(len))}

---------------------------------------------------------------------------
(* Tag and TagPayload.  A payload is [t, v]: its type code and its value;  *)
(* a Tag is [name, payload], the name as its UTF-8 bytes.                  *)

Payload(t, v) == [t |-> t, v |-> v]
Tag(name, payload) == [name |-> name, payload |-> payload]

ScalarIds == 1..6
ArrayIds == {7, 11, 12}

\* the byte width of a scalar, or of an array's element
Width(tag_id) ==
    CASE tag_id \in {1, 7} -> 1
      [] tag_id = 2 -> 2
      [] tag_id \in {3, 5, 11} -> 4
      [] tag_id \in {4, 6, 12} -> 8

\* next_i8 .. next_f64 applied to the bytes read
Value(tag_id, b) ==
    CASE tag_id \in {1, 7} -> I8(b)
      [] tag_id = 2 -> I16(b)
      [] tag_id \in {3, 11} -> I32(b)
      [] tag_id \in {4, 12} -> I64(b)
      [] tag_id = 5 -> F32(b)
      [] tag_id = 6 -> F64(b)

Top(st) == st[Len(st)]
Pop(st) == SubSeq(st, 1, Len(st) - 1)
SetTop(st, fr) == [st EXCEPT ![Len(st)] = fr]

CtlParse == [op |-> "parse"]
CtlPayload(t) == [op |-> "payload", tag_id |-> t]
CtlLoop == [op |-> "loop"]
CtlRet(v) == [op |-> "ret", val |-> v]
CtlDone(why) == [op |-> "done", why |-> why]

Goto(cur, st, c) ==
    /\ iterator' = cur.it
    /\ pos' = cur.pos
    /\ stack' = st
    /\ ctl' = c
    /\ UNCHANGED root

\* Tag::parse returns
Return(cur, r, why) ==
    /\ iterator' = cur.it
    /\ pos' = cur.pos
    /\ stack' = <<>>
    /\ ctl' = CtlDone(why)
    /\ root' = r

\* a `?` on None: every caller up to Tag::parse returns None
Fail(r) == Return(r.cur, None, r.why)

Here == Cur(iterator, pos)

Decoding == pc = "parse"
Idle == UNCHANGED <<pc, file, fpos, scan, chunk_offsets, chunkVars>>

---------------------------------------------------------------------------
(* Tag::parse, lines 192-209                                               *)

TagParse ==
    /\ Decoding /\ ctl.op = "parse"
    /\ \E r1 \in next_n(Here, 1, TagIdWords) :
         IF ~r1.ok THEN Fail(r1)
         ELSE IF r1.val[1] = 0 THEN Return(r1.cur, None, "empty")
         ELSE \E r2 \in next_n(r1.cur, 2, LenWords) :
           IF ~r2.ok THEN Fail(r2)
           ELSE \E r3 \in next_string(r2.cur, U16(r2.val)) :
             IF ~r3.ok THEN Fail(r3)
             ELSE Goto(r3.cur, <<[kind |-> "tag", name |-> r3.val]>>,
                       CtlPayload(r1.val[1]))
    /\ Idle

TagReturn ==
    /\ Decoding /\ ctl.op = "ret" /\ Top(stack).kind = "tag"
    /\ Return(Here, Some(Tag(Top(stack).name, ctl.val)), "tree")
    /\ Idle

---------------------------------------------------------------------------
(* Tag::parse_payload, lines 211-268                                       *)

\* 1..6: one fixed-width read
PayloadScalar ==
    /\ Decoding /\ ctl.op = "payload" /\ ctl.tag_id \in ScalarIds
    /\ \E r \in next_n(Here, Width(ctl.tag_id), DataWords(Width(ctl.tag_id))) :
         IF ~r.ok THEN Fail(r)
         ELSE Goto(r.cur, stack, CtlRet(Payload(ctl.tag_id, Value(ctl.tag_id, r.val))))
    /\ Idle

\* 8: next_u16, next_string
PayloadString ==
    /\ Decoding /\ ctl.op = "payload" /\ ctl.tag_id = 8
    /\ \E r1 \in next_n(Here, 2, LenWords) :
         IF ~r1.ok THEN Fail(r1)
         ELSE \E r2 \in next_string(r1.cur, U16(r1.val)) :
           IF ~r2.ok THEN Fail(r2)
           ELSE Goto(r2.cur, stack, CtlRet(Payload(8, r2.val)))
    /\ Idle

\* 7, 11, 12: let arr_len = iterator.next_i32()? as usize
PayloadArray ==
    /\ Decoding /\ ctl.op = "payload" /\ ctl.tag_id \in ArrayIds
    /\ \E r \in next_n(Here, 4, CountWords) :
         IF ~r.ok THEN Fail(r)
         ELSE Goto(r.cur,
                   Append(stack, [kind |-> "array", tag_id |-> ctl.tag_id,
                                  n |-> AsUsize(I32(r.val)), items |-> <<>>]),
                   CtlLoop)
    /\ Idle

\* ArrayLoop with unwrap_or_default() in place of `?`: a read past the end yields 0
ArrayLoop_unwrap_or_default ==
    /\ Decoding /\ ctl.op = "loop" /\ Top(stack).kind = "array"
    /\ LET fr == Top(stack)
       IN  IF UsizeGt(fr.n, Len(fr.items))
           THEN \E r \in next_n(Here, Width(fr.tag_id), DataWords(Width(fr.tag_id))) :
                  Goto(r.cur,
                       SetTop(stack, [fr EXCEPT !.items =
                           Append(@, IF r.ok THEN Value(fr.tag_id, r.val) ELSE 0)]),
                       CtlLoop)
           ELSE Goto(Here, Pop(stack), CtlRet(Payload(fr.tag_id, fr.items)))
    /\ Idle

\* next_n_i8_vec / next_n_i32_vec / next_n_i64_vec: for _ in 0..n { push(next()?) }
ArrayLoop ==
    /\ Decoding /\ ctl.op = "loop" /\ Top(stack).kind = "array"
    /\ LET fr == Top(stack)
       IN  IF UsizeGt(fr.n, Len(fr.items))
           THEN \E r \in next_n(Here, Width(fr.tag_id), DataWords(Width(fr.tag_id))) :
                  IF ~r.ok THEN Fail(r)
                  ELSE Goto(r.cur,
                            SetTop(stack, [fr EXCEPT !.items =
                                Append(@, Value(fr.tag_id, r.val))]),
                            CtlLoop)
           ELSE Goto(Here, Pop(stack), CtlRet(Payload(fr.tag_id, fr.items)))
    /\ Idle

\* 9: let tag_id = next_u8()?; let tags_count = next_i32()? as usize
PayloadList ==
    /\ Decoding /\ ctl.op = "payload" /\ ctl.tag_id = 9
    /\ \E r1 \in next_n(Here, 1, TagIdWords) :
         IF ~r1.ok THEN Fail(r1)
         ELSE \E r2 \in next_n(r1.cur, 4, CountWords) :
           IF ~r2.ok THEN Fail(r2)
           ELSE Goto(r2.cur,
                     Append(stack, [kind |-> "list", tag_id |-> r1.val[1],
                                    n |-> AsUsize(I32(r2.val)), items |-> <<>>]),
                     CtlLoop)
    /\ Idle

\* ListLoop with the range 0..=tags_count
ListLoop_inclusive ==
    /\ Decoding /\ ctl.op = "loop" /\ Top(stack).kind = "list"
    /\ LET fr == Top(stack)
       IN  IF UsizeGt(fr.n, Len(fr.items)) \/ fr.n = AsUsize(Len(fr.items))
           THEN Goto(Here, stack, CtlPayload(fr.tag_id))
           ELSE Goto(Here, Pop(stack), CtlRet(Payload(9, fr.items)))
    /\ Idle

\* for _ in 0..tags_count { Tag::parse_payload(iterator, tag_id) ... }
ListLoop ==
    /\ Decoding /\ ctl.op = "loop" /\ Top(stack).kind = "list"
    /\ LET fr == Top(stack)
       IN  IF UsizeGt(fr.n, Len(fr.items))
           THEN Goto(Here, stack, CtlPayload(fr.tag_id))
           ELSE Goto(Here, Pop(stack), CtlRet(Payload(9, fr.items)))
    /\ Idle

\* tag_list.push(Tag::parse_payload(iterator, tag_id)?)
ListPush ==
    /\ Decoding /\ ctl.op = "ret" /\ Top(stack).kind = "list"
    /\ Goto(Here, SetTop(stack, [Top(stack) EXCEPT !.items = Append(@, ctl.val)]),
            CtlLoop)
    /\ Idle

\* 10: let mut tag_id = next_u8()?
PayloadCompound ==
    /\ Decoding /\ ctl.op = "payload" /\ ctl.tag_id = 10
    /\ \E r \in next_n(Here, 1, TagIdWords) :
         IF ~r.ok THEN Fail(r)
         ELSE Goto(r.cur,
                   Append(stack, [kind |-> "compound", tag_id |-> r.val[1],
                                  name |-> <<>>, items |-> <<>>]),
                   CtlLoop)
    /\ Idle

\* while tag_id != 0 { name_length; name; Tag::parse_payload(iterator, tag_id) ... }
CompoundLoop ==
    /\ Decoding /\ ctl.op = "loop" /\ Top(stack).kind = "compound"
    /\ LET fr == Top(stack)
       IN  IF fr.tag_id # 0
           THEN \E r1 \in next_n(Here, 2, LenWords) :
                  IF ~r1.ok THEN Fail(r1)
                  ELSE \E r2 \in next_string(r1.cur, U16(r1.val)) :
                    IF ~r2.ok THEN Fail(r2)
                    ELSE Goto(r2.cur, SetTop(stack, [fr EXCEPT !.name = r2.val]),
                              CtlPayload(fr.tag_id))
           ELSE Goto(Here, Pop(stack), CtlRet(Payload(10, fr.items)))
    /\ Idle

\* CompoundPush with next_u8().unwrap_or(0): the end of the buffer ends the Compound
CompoundPush_unwrap_or_end ==
    /\ Decoding /\ ctl.op = "ret" /\ Top(stack).kind = "compound"
    /\ LET fr == Top(stack)
       IN  \E r \in next_n(Here, 1, TagIdWords) :
             Goto(IF r.ok THEN r.cur ELSE Here,
                  SetTop(stack, [fr EXCEPT !.items = Append(@, Tag(fr.name, ctl.val)),
                                           !.tag_id = IF r.ok THEN r.val[1] ELSE 0]),
                  CtlLoop)
    /\ Idle

\* tag_list.push(Tag{name, payload: ...?}); tag_id = next_u8()?
CompoundPush ==
    /\ Decoding /\ ctl.op = "ret" /\ Top(stack).kind = "compound"
    /\ LET fr == Top(stack)
       IN  \E r \in next_n(Here, 1, TagIdWords) :
             IF ~r.ok THEN Fail(r)
             ELSE Goto(r.cur,
                       SetTop(stack, [fr EXCEPT !.items = Append(@, Tag(fr.name, ctl.val)),
                                                !.tag_id = r.val[1]]),
                       CtlLoop)
    /\ Idle

\* PayloadUnknown with `_ => Some(TagPayload::Compound(Vec::new()))` for codes above 12
PayloadUnknown_lenient ==
    /\ Decoding /\ ctl.op = "payload" /\ ctl.tag_id \notin 1..12
    /\ IF ctl.tag_id = 0
       THEN Return(Here, None, "unknown")
       ELSE Goto(Here, stack, CtlRet(Payload(10, <<>>)))
    /\ Idle

\* _ => None
PayloadUnknown ==
    /\ Decoding /\ ctl.op = "payload" /\ ctl.tag_id \notin 1..12
    /\ Return(Here, None, "unknown")
    /\ Idle

NextParse ==
    \/ TagParse
    \/ TagReturn
    \/ PayloadScalar
    \/ PayloadString
    \/ PayloadArray
    \/ ArrayLoop
    \/ PayloadList
    \/ ListLoop
    \/ ListPush
    \/ PayloadCompound
    \/ CompoundLoop
    \/ CompoundPush
    \/ PayloadUnknown

---------------------------------------------------------------------------
(* Tag::parse on its own: a buffer of at most MaxBufLen bytes.             *)

NoFile == [prefix |-> <<>>, filler |-> <<0, 0, 0, 0>>, recs |-> <<>>, size |-> 0]

InitParse ==
    /\ pc = "parse"
    /\ file = NoFile
    /\ fpos = 0
    /\ scan = 0
    /\ chunk_offsets = <<>>
    /\ chunk_i = 0
    /\ chunk_length = 0
    /\ chunk_data = <<>>
    /\ chunks = <<>>
    /\ \E n \in 0..MaxBufLen : iterator = FreeIter(n)
    /\ pos = 0
    /\ stack = <<>>
    /\ ctl = CtlParse
    /\ root = None

SpecParse == InitParse /\ [][NextParse]_vars

FairSpecParse == SpecParse /\ WF_vars(NextParse)

---------------------------------------------------------------------------
(* ZlibDecoder::read_to_end, line 423.  A zlib stream is a 2-byte header,  *)
(* deflate blocks and the Adler-32 of the output; bytes after the stream   *)
(* are not read.  The files of the model hold complete streams of stored   *)
(* blocks, or bytes that are no zlib stream.                               *)

RECURSIVE AdlerSums(_, _, _)
AdlerSums(data, a, b) ==
    IF data = <<>> THEN <<a, b>>
    ELSE LET a2 == (a + data[1]) % 65521
         IN  AdlerSums(Tail(data), a2, (b + a2) % 65521)

\* the checksum as its four big-endian bytes
Adler32(data) ==
    LET s == AdlerSums(data, 1, 0)
    IN  <<s[2] \div 256, s[2] % 256, s[1] \div 256, s[1] % 256>>

ZlibHeaderOk(d) ==
    /\ Len(d) >= 2
    /\ d[1] % 16 = 8
    /\ d[1] \div 16 <= 7
    /\ (d[1] * 256 + d[2]) % 31 = 0
    /\ (d[2] \div 32) % 2 = 0

\* the output of the stored blocks from index k on, then the checksum
RECURSIVE InflateBlocks(_, _, _)
InflateBlocks(d, k, out) ==
    IF Len(d) < k + 4 THEN None
    ELSE LET final == d[k] % 2
             btype == (d[k] \div 2) % 4
             len   == d[k + 1] + d[k + 2] * 256
             nlen  == d[k + 3] + d[k + 4] * 256
             next  == k + 5 + len
         IN  IF btype # 0 \/ nlen # 65535 - len \/ Len(d) < next - 1 THEN None
             ELSE LET out2 == out \o SubSeq(d, k + 5, next - 1)
                  IN  IF final = 0 THEN InflateBlocks(d, next, out2)
                      ELSE IF Len(d) >= next + 3
                              /\ SubSeq(d, next, next + 3) = Adler32(out2)
                           THEN Some(out2)
                           ELSE None

Inflate(d) == IF ZlibHeaderOk(d) THEN InflateBlocks(d, 3, <<>>) ELSE None

---------------------------------------------------------------------------
(* parse_chunks, lines 401-439, and its call from main, lines 479-483.     *)

\* println!("Chunk offset 0: {}", chunk_offsets[0]); parse_chunks(&mut f, &chunk_offsets)?
MainCall ==
    /\ pc = "located"
    /\ IF chunk_offsets = <<>>
       THEN pc' = "panic" /\ UNCHANGED <<chunk_i, chunks>>
       ELSE pc' = "chunk" /\ chunk_i' = 0 /\ chunks' = <<>>
    /\ UNCHANGED <<file, fpos, scan, chunk_offsets, chunk_length, chunk_data, parseVars>>

\* a `?` or ensure! in parse_chunks: it returns Err, and so does main
Abort(p, len, data) ==
    /\ pc' = "chunks_err"
    /\ fpos' = p
    /\ chunk_length' = len
    /\ chunk_data' = data
    /\ UNCHANGED parseVars

\* lines 406-426: seek, read the record, inflate it, start the decoder
ChunkExtract ==
    /\ pc = "chunk" /\ chunk_i < Len(chunk_offsets)
    /\ LET off == chunk_offsets[chunk_i + 1]
           r4  == ReadExact(file, off, 4)
       IN  IF ~r4.some THEN Abort(off, chunk_length, chunk_data)
           ELSE LET len == U32(r4.val)
                    r1  == ReadExact(file, off + 4, 1)
                IN  IF ~r1.some THEN Abort(off + 4, len, chunk_data)
                    ELSE IF r1.val[1] # SchemeZlib THEN Abort(off + 5, len, chunk_data)
                    ELSE LET rd == ReadExact(file, off + 5, len)
                         IN  IF ~rd.some THEN Abort(off + 5, len, chunk_data)
                             ELSE LET z == Inflate(rd.val)
                                  IN  IF ~z.some THEN Abort(off + 5 + len, len, rd.val)
                                      ELSE /\ pc' = "parse"
                                           /\ fpos' = off + 5 + len
                                           /\ chunk_length' = len
                                           /\ chunk_data' = rd.val
                                           /\ iterator' = KnownIter(z.val)
                                           /\ pos' = 0
                                           /\ stack' = <<>>
                                           /\ ctl' = CtlParse
                                           /\ root' = None
    /\ UNCHANGED <<file, scan, chunk_offsets, chunk_i, chunks>>

\* lines 428-432: if let Some(root) = Tag::parse(..) { chunks.push(root) } else { eprintln! }
ChunkPush ==
    /\ pc = "parse" /\ ctl.op = "done"
    /\ chunks' = IF root.some THEN Append(chunks, root.val) ELSE chunks
    /\ chunk_i' = chunk_i + 1
    /\ pc' = "chunk"
    /\ UNCHANGED <<file, fpos, scan, chunk_offsets, chunk_length, chunk_data, parseVars>>

\* lines 436-438: return Ok(chunks)
ChunksReturn ==
    /\ pc = "chunk" /\ chunk_i = Len(chunk_offsets)
    /\ pc' = "returned"
    /\ UNCHANGED <<file, fpos, scan, chunk_offsets, chunkVars, parseVars>>

---------------------------------------------------------------------------
(* The region files of the model.                                          *)

SeqsUpTo(S, n) == UNION {[1..k -> S] : k \in 0..n}

\* a zlib stream of one stored block
ZlibStored(doc) ==
    <<120, 1, 1, Len(doc) % 256, Len(doc) \div 256,
      255 - (Len(doc) % 256), 255 - (Len(doc) \div 256)>> \o doc \o Adler32(doc)

\* a chunk record: the length, the scheme byte, the payload
Record(len, scheme, payload) ==
    <<0, 0, len \div 256, len % 256, scheme>> \o payload

\* a well-formed record: its length counts the scheme byte and the payload
ZlibRecord(doc) == Record(Len(ZlibStored(doc)) + 1, SchemeZlib, ZlibStored(doc))

\* Compound "" { Byte "A": 5, String "A": "A", ByteArray "": [7], List "": [Byte 9] }
DocCompound ==
    <<10, 0, 0>>
    \o <<1, 0, 1, 65, 5>>
    \o <<8, 0, 1, 65, 0, 1, 65>>
    \o <<7, 0, 0, 0, 0, 0, 1, 7>>
    \o <<9, 0, 0, 1, 0, 0, 0, 1, 9>>
    \o <<0>>

Docs ==
    { DocCompound,                                   \* a tree
      SubSeq(DocCompound, 1, Len(DocCompound) - 1),  \* its Compound not terminated
      <<0>>,                                         \* the empty document
      <<13, 0, 0>>,                                  \* an unknown type code
      <<3, 0, 0, 0, 0, 0, 42>> }                     \* Int "": 42

Records ==
    {ZlibRecord(doc) : doc \in Docs}
    \cup { Record(Len(ZlibStored(<<0>>)) + 1, 1, ZlibStored(<<0>>)),   \* scheme 1
           Record(13, SchemeZlib, <<0, 1, 1, 1, 0, 254, 255, 0, 0, 1, 0, 1>>),
                                                     \* not a zlib header
           Record(8191, SchemeZlib, ZlibStored(<<0>>)) }  \* longer than the file

PipeEntries == {<<0, 0, 2, 1>>, <<0, 0, 3, 1>>, <<0, 0, 0, 0>>}

Files ==
    { [prefix |-> p, filler |-> <<0, 0, 0, 0>>, recs |-> (2 :> r2 @@ 3 :> r3),
       size |-> IF padded THEN 4 * SectorSize ELSE 3 * SectorSize + Len(r3)] :
        p \in SeqsUpTo(PipeEntries, MaxChunks), r2 \in Records, r3 \in Records,
        padded \in BOOLEAN }

LocEntries == {<<b0, b1, 2, b3>> : b0 \in {0, 1}, b1 \in {0, 1}, b3 \in {0, 1}}

LocFiles ==
    { [prefix |-> p, filler |-> e, recs |-> <<>>, size |-> n] :
        p \in SeqsUpTo(LocEntries, MaxPrefix),
        e \in {<<0, 0, 0, 0>>, <<0, 0, 2, 1>>},
        n \in {2 * SectorSize, 6} }

---------------------------------------------------------------------------
(* The specifications.                                                     *)

InitWith(f) ==
    /\ pc = "locate"
    /\ file = f
    /\ fpos = 0
    /\ scan = 0
    /\ chunk_offsets = <<>>
    /\ chunk_i = 0
    /\ chunk_length = 0
    /\ chunk_data = <<>>
    /\ chunks = <<>>
    /\ iterator = KnownIter(<<>>)
    /\ pos = 0
    /\ stack = <<>>
    /\ ctl = CtlParse
    /\ root = None

\* main on a region file
Init == \E f \in Files : InitWith(f)

Next ==
    \/ LocateStep
    \/ MainCall
    \/ ChunkExtract
    \/ ChunkPush
    \/ ChunksReturn
    \/ NextParse

Spec == Init /\ [][Next]_vars

\* the scan of the location table
InitLocator == \E f \in LocFiles : InitWith(f)

NextLocator == LocateStep

SpecLocator == InitLocator /\ [][NextLocator]_vars

---------------------------------------------------------------------------
(* The properties.                                                         *)

Located == pc = "located"

Absent(f, k) == TableEntry(f, k)[4] = 0

\* the index of the first absent entry of the table, TableEntries + 1 if none
FirstAbsent(f) ==
    IF \E k \in 1..TableEntries : Absent(f, k)
    THEN CHOOSE k \in 1..TableEntries :
            Absent(f, k) /\ \A j \in 1..(k - 1) : ~Absent(f, j)
    ELSE TableEntries + 1

\* (b0<<16 | b1<<8 | b2) of table entry k
EntrySector(f, k) ==
    TableEntry(f, k)[1] * 65536 + TableEntry(f, k)[2] * 256 + TableEntry(f, k)[3]

\* C1: when the scan of the location table ends, chunk_offsets holds one
\* offset for each entry before the first entry whose fourth byte is 0 and
\* nothing for that entry or a later one, in table order, the k-th offset
\* being (b0<<16 | b1<<8 | b2) * 4096 of the k-th entry; at most 1024 offsets.
C1_LocatorOffsets ==
    Located =>
        /\ Len(chunk_offsets) = FirstAbsent(file) - 1
        /\ Len(chunk_offsets) <= 1024
        /\ \A k \in 1..Len(chunk_offsets) :
              chunk_offsets[k] = EntrySector(file, k) * 4096

\* a scan that stopped at an absent second entry with present entries after
\* it, having turned [0,0,2,1] into 8192
C1_Witness ==
    /\ Located
    /\ Len(file.prefix) = 2
    /\ file.prefix[1] = <<0, 0, 2, 1>>
    /\ file.prefix[2][4] = 0
    /\ file.filler[4] # 0
    /\ chunk_offsets = <<8192>>

\* C9, as stated: the offsets are strictly increasing, and at most 1024.
C9_StrictlyIncreasing ==
    Located =>
        /\ Len(chunk_offsets) <= 1024
        /\ \A k \in 1..(Len(chunk_offsets) - 1) : chunk_offsets[k] < chunk_offsets[k + 1]

\* C9, amended: the offsets keep the order of the table: two consecutive
\* offsets increase exactly when the sector offsets of their table entries
\* do (the table may repeat a sector or go down); at most 1024 offsets.
C9_TableOrder ==
    Located =>
        /\ Len(chunk_offsets) <= 1024
        /\ \A k \in 1..(Len(chunk_offsets) - 1) :
              (chunk_offsets[k] < chunk_offsets[k + 1])
                  <=> (EntrySector(file, k) < EntrySector(file, k + 1))

\* a full table of 1024 present entries whose first two offsets go down
C9_Witness ==
    /\ Located
    /\ Len(chunk_offsets) = 1024
    /\ chunk_offsets[1] > chunk_offsets[2]

\* C2, as stated: with the record extracted, the payload read is chunk_length - 1
\* bytes long and the file position is 4 + chunk_length bytes past the offset.
C2_PayloadLength ==
    (pc = "parse" /\ ctl.op = "parse") =>
        /\ Len(chunk_data) = chunk_length - 1
        /\ fpos = chunk_offsets[chunk_i + 1] + 4 + chunk_length

\* C3, as stated: no failure of one chunk ends parse_chunks: the run goes on
\* to the later offsets and returns the trees decoded.
C3_FailureIsolation == pc # "chunks_err"

Done == pc = "parse" /\ ctl.op = "done"

\* what Tag::parse returns for the empty document (line 197)
EmptyDocumentResult == None

\* C4, as stated: the empty document's result is its own: no decode failure
\* returns the same value.
C4_EmptyDistinguishable ==
    Done =>
        /\ ctl.why = "empty" => root = EmptyDocumentResult
        /\ ctl.why \in {"end", "utf8", "unknown"} => root # EmptyDocumentResult

\* a usize that came from a negative i32
FromNegative(n) == n[1] = 65535 /\ n[2] = 65535 /\ n[3] >= 32768

\* C5, as stated: a negative array count never drives element reads: no
\* array loop under such a count has read an element.
C5_NegativeCountReadsNothing ==
    \A k \in 1..Len(stack) :
        (stack[k].kind = "array" /\ FromNegative(stack[k].n)) => stack[k].items = <<>>

UnknownId(t) == t \notin 0..12

\* an unknown type code waits to be dispatched: as the payload to enter, as
\* the member type of a Compound, or as the element type of a List (of any
\* count, or of a count other than 0)
UnknownPending(anyCount) ==
    /\ pc = "parse"
    /\ ctl.op # "done"
    /\ \/ ctl.op = "payload" /\ UnknownId(ctl.tag_id)
       \/ \E k \in 1..Len(stack) :
            \/ stack[k].kind = "compound" /\ UnknownId(stack[k].tag_id)
            \/ /\ stack[k].kind = "list"
               /\ UnknownId(stack[k].tag_id)
               /\ (anyCount \/ stack[k].n # AsUsize(0))

Failed == ctl.op = "done" /\ ~root.some

\* C6, as stated: once an unknown type code was read as the root's type, a
\* Compound member's type or a List's element type, the decode can only fail.
C6_UnknownAlwaysFails ==
    [][UnknownPending(TRUE) => (UnknownPending(TRUE)' \/ Failed')]_vars

\* C6, amended: once an unknown type code was read as the root's type, a
\* Compound member's type or the element type of a List whose count is not 0,
\* the decode can only fail.
C6_UnknownFailsUnlessEmptyList ==
    [][UnknownPending(FALSE) => (UnknownPending(FALSE)' \/ Failed')]_vars

\* a decode that failed on an unknown type code below the root
C6_Witness ==
    /\ Done
    /\ ctl.why = "unknown"
    /\ ~root.some
    /\ pos > 3

\* C7: a List whose count is 0 takes 5 bytes, whatever its element type code,
\* and returns the empty List without entering an element payload.
C7_EmptyList ==
    [][/\ (ctl.op = "payload" /\ ctl.tag_id = 9 /\ ctl'.op = "loop"
             /\ Top(stack').n = AsUsize(0))
          => (pos' = pos + 5 /\ Top(stack').items = <<>>)
       /\ (ctl.op = "loop" /\ Top(stack).kind = "list" /\ Top(stack).n = AsUsize(0))
          => (/\ ctl'.op = "ret"
              /\ ctl'.val.t = 9
              /\ ctl'.val.v = <<>>
              /\ pos' = pos
              /\ stack' = Pop(stack))]_vars

\* the decode of a root List of count 0 returned a tree after 3 + 5 bytes
C7_Witness ==
    /\ Done
    /\ root.some
    /\ root.val.payload.t = 9
    /\ root.val.payload.v = <<>>
    /\ pos = 8

RECURSIVE SumOver(_, _, _)
SumOver(Op(_), q, k) == IF k > Len(q) THEN 0 ELSE Op(q[k]) + SumOver(Op, q, k + 1)

\* the bytes the encoding of a payload takes
RECURSIVE PayloadLen(_)
PayloadLen(p) ==
    CASE p.t \in ScalarIds -> Width(p.t)
      [] p.t \in ArrayIds -> 4 + Len(p.v) * Width(p.t)
      [] p.t = 8 -> 2 + Len(p.v)
      [] p.t = 9 -> 5 + SumOver(PayloadLen, p.v, 1)
      [] p.t = 10 ->
           LET MemberLen(m) == 3 + Len(m.name) + PayloadLen(m.payload)
           IN  SumOver(MemberLen, p.v, 1) + 1

TagLen(tag) == 3 + Len(tag.name) + PayloadLen(tag.payload)

RECURSIVE Pushed(_)
PushedAll(q) == SumOver(Pushed, q, 1)
Pushed(p) ==
    CASE p.t \in ArrayIds -> Len(p.v)
      [] p.t = 9 -> Len(p.v) + PushedAll(p.v)
      [] p.t = 10 ->
           LET PushedMember(m) == Pushed(m.payload)
           IN  Len(p.v) + SumOver(PushedMember, p.v, 1)
      [] OTHER -> 0

\* the loop iterations completed so far
Iterations ==
    LET FramePushed(fr) ==
            CASE fr.kind = "tag" -> 0
              [] fr.kind = "array" -> Len(fr.items)
              [] fr.kind = "list" -> Len(fr.items) + PushedAll(fr.items)
              [] fr.kind = "compound" ->
                   LET PushedMember(m) == Pushed(m.payload)
                   IN  Len(fr.items) + SumOver(PushedMember, fr.items, 1)
    IN  SumOver(FramePushed, stack, 1)
        + (IF ctl.op = "ret" THEN Pushed(ctl.val) ELSE 0)
        + (IF root.some THEN Pushed(root.val.payload) ELSE 0)

\* C10: the loops have completed no more iterations than bytes were read,
\* and Tag::parse returns.
C10_Terminates ==
    /\ [](Iterations <= pos)
    /\ <>(ctl.op = "done")

\* an array loop under a count cast from a negative i32 has read elements up
\* to the end of the buffer
C10_Witness ==
    /\ pc = "parse"
    /\ ctl.op = "loop"
    /\ Top(stack).kind = "array"
    /\ FromNegative(Top(stack).n)
    /\ Len(Top(stack).items) >= 3
    /\ Avail(iterator) = 0

============================================================================
